---- MODULE Spec2Model ----
(***************************************************************************)
(* A model of splat's driver, src/split.py: the byte-count formatter       *)
(* (fmt_size), the construction of the segment list (initialize_segments), *)
(* the attribution of symbols to segments (get_segment_symbols), the merge *)
(* of configuration documents (merge_configs) and the scan/split pipeline  *)
(* of main with its fingerprint cache.                                     *)
(*                                                                         *)
(* Python values are modelled as follows.  A dict is a function whose      *)
(* domain is the set of keys present.  An optional address (None or an     *)
(* int) is a sequence of length 0 or 1.  Fingerprints, ids and the options *)
(* block are opaque strings; the Python None they are compared with is the *)
(* string "None".  Lists are sequences, indexed from 1 where Python        *)
(* indexes from 0.                                                         *)
(***************************************************************************)
EXTENDS Integers, Sequences, FiniteSets, TLC

VARIABLES
    \* ---- main(): inputs of the current run
    pc,                \* position of main()
    run,               \* number of runs started so far
    budget,            \* number of runs the scenario allows
    config_segments,   \* config["segments"]: the descriptor list
    config_options,    \* config.get("options")
    config_sha1,       \* config["sha1"], when declared
    rom_sha1,          \* hashlib.sha1(rom_bytes).hexdigest()
    rom_len,           \* len(rom_bytes)
    use_cache,         \* --use-cache
    modes,             \* --modes
    \* ---- main(): state
    disk,              \* the file at options.get_cache_path()
    cache,             \* the local dict `cache`
    all_segments,      \* the list returned by initialize_segments
    error,             \* why the run aborted, "none" otherwise
    i,                 \* index of the loop in progress
    typ,               \* the local `typ`, which outlives the scan loop
    seg_sizes, seg_split, seg_cached,
    processed_segments,
    did_run,           \* indices of the segments with did_run set
    given_symbols,     \* index -> symbol sets granted to the segment
    linker_entries,    \* segments added to the LinkerWriter, in order
    \* ---- main(): what the run has done (observation only)
    scan_calls,        \* indices on which scan() was invoked
    scan_skipped,      \* indices cache-skipped in the scan pass
    split_calls,       \* indices on which split() was invoked
    hits,              \* indices that took the cache-hit branch of the split pass
    misses,            \* indices that took the cache-miss branch of the split pass
    disk_writes,       \* number of writes of the cache file in this run
    last_run,          \* inputs of the last completed run
    ever_split,        \* <<id, fingerprint>> pairs split() was ever invoked on
    \* ---- initialize_segments() applied to a descriptor list
    seg_in, seg_out,
    \* ---- get_segment_symbols() applied to a segment list and a symbol table
    sym_segments, sym_symbols, sym_out,
    \* ---- fmt_size() applied to a byte count
    fmt_in, fmt_out,
    \* ---- merge_configs() applied to two configuration documents
    merge_main, merge_add, merge_out

mainVars == <<pc, run, budget, config_segments, config_options, config_sha1,
              rom_sha1, rom_len, use_cache, modes, disk, cache, all_segments, error, i,
              typ, seg_sizes, seg_split, seg_cached, processed_segments,
              did_run, given_symbols, linker_entries, scan_calls, scan_skipped,
              split_calls, hits, misses, disk_writes, last_run, ever_split>>
segVars == <<seg_in, seg_out>>
symVars == <<sym_segments, sym_symbols, sym_out>>
fmtVars == <<fmt_in, fmt_out>>
mergeVars == <<merge_main, merge_add, merge_out>>
vars == <<mainVars, segVars, symVars, fmtVars, mergeVars>>

(***************************************************************************)
(* Bounds of the model.                                                    *)
(***************************************************************************)
MaxSegs == 2        \* real descriptors in main's descriptor list
MaxRuns == 2        \* consecutive runs of main
MaxEntries == 3     \* entries of a descriptor list given to initialize_segments
MaxSymSegs == 2     \* segments given to get_segment_symbols
MaxSyms == 2        \* symbols in the symbol table given to get_segment_symbols
ShaLen == 1         \* characters of a digest
MaxListLen == 1     \* items of a list of a configuration document
FmtSpread == 6      \* byte counts on each side of a threshold of fmt_size
MaxOrderEntries == 4  \* entries of a descriptor list with markers anywhere

(***************************************************************************)
(* Python values.                                                          *)
(***************************************************************************)
None == "None"
NoAddr == << >>
Addr(a) == <<a>>
IsNoAddr(x) == x = << >>
\* Python truthiness of an optional int: None and 0 are both falsy.
Truthy(x) == x # << >> /\ x[1] # 0

EmptyDict == [k \in {} |-> None]
DictGet(d, k) == IF k \in DOMAIN d THEN d[k] ELSE None
DictSet(d, k, v) == [x \in (DOMAIN d) \cup {k} |-> IF x = k THEN v ELSE d[x]]
DictAppend(d, k, v) ==
    IF k \in DOMAIN d THEN [d EXCEPT ![k] = Append(@, v)] ELSE DictSet(d, k, <<v>>)
Range(s) == {s[k] : k \in DOMAIN s}

\* Addresses, in units of 0x1000: 0, 0x1000 and 0x2000.
Addrs == {0, 1, 2}
Types == {"code", "bin"}
Names == {"a", "dflt"}
Ids == {"s1", "s2"}
Fps == {"f1", "f2"}
OptionBlocks == {None, "o1"}
ModeSets == {{"all"}, {"code"}}

(***************************************************************************)
(* Descriptors: the entries of config["segments"].  A rompos marker is a   *)
(* one-element list [addr]; a real descriptor carries a start, a type and  *)
(* a name, and what the Segment class derives from it: unique_id() and     *)
(* cache().                                                                *)
(***************************************************************************)
Marker(a) == [kind |-> "marker", start |-> a, type |-> "", name |-> "",
              id |-> "", fp |-> ""]
Real(a, t, n, u, f) == [kind |-> "seg", start |-> a, type |-> t, name |-> n,
                        id |-> u, fp |-> f]
IsRomposMarker(seg_yaml) == seg_yaml.kind = "marker"
RealPositions(cs) == {k \in DOMAIN cs : ~IsRomposMarker(cs[k])}

(***************************************************************************)
(* The Segment class (segtypes/segment.py) and util.options.               *)
(***************************************************************************)
parse_segment_type(seg_yaml) == seg_yaml.type
parse_segment_start(seg_yaml) == Addr(seg_yaml.start)
require_unique_name(type) == type = "code"
needs_symbols(type) == type = "code"
from_yaml(seg_yaml, rom_start, rom_end) ==
    [type |-> parse_segment_type(seg_yaml), name |-> seg_yaml.name,
     rom_start |-> rom_start, rom_end |-> rom_end,
     vram_start |-> NoAddr, vram_end |-> NoAddr,
     require_unique_name |-> require_unique_name(seg_yaml.type),
     needs_symbols |-> needs_symbols(seg_yaml.type),
     id |-> seg_yaml.id, fp |-> seg_yaml.fp]
unique_id(segment) == segment.id
segment_cache(segment) == segment.fp
is_name_default(segment) == segment.name = "dflt"
segment_size(segment) ==
    IF IsNoAddr(segment.rom_end) \/ IsNoAddr(segment.rom_start) THEN NoAddr
    ELSE Addr(segment.rom_end[1] - segment.rom_start[1])
contains_vram(segment, addr) ==
    /\ ~IsNoAddr(segment.vram_start) /\ ~IsNoAddr(segment.vram_end)
    /\ addr >= segment.vram_start[1] /\ addr < segment.vram_end[1]
contains_rom(segment, addr) ==
    /\ ~IsNoAddr(segment.rom_start) /\ ~IsNoAddr(segment.rom_end)
    /\ addr >= segment.rom_start[1] /\ addr < segment.rom_end[1]
mode_active(mode) == mode \in modes \/ "all" \in modes
should_scan(segment) == mode_active(segment.type)
should_split(segment) == mode_active(segment.type)

(***************************************************************************)
(* fmt_size (lines 32-38).  A Python str is a sequence of characters;      *)
(* str(n) is the decimal numeral of n and // is \div on the non-negative   *)
(* sizes the function is given.                                            *)
(***************************************************************************)
Kilo == 1000
Mega == 1000000
DigitChar(d) == <<"0", "1", "2", "3", "4", "5", "6", "7", "8", "9">>[d + 1]
RECURSIVE Str(_)
Str(n) == IF n < 10 THEN <<DigitChar(n)>> ELSE Str(n \div 10) \o <<DigitChar(n % 10)>>

fmt_size(size) ==
    IF size > Mega THEN Str(size \div Mega) \o <<" ", "M", "B">>
    ELSE IF size > Kilo THEN Str(size \div Kilo) \o <<" ", "K", "B">>
    ELSE Str(size) \o <<" ", "B">>

(***************************************************************************)
(* initialize_segments (lines 40-66).  The result records how the call     *)
(* ended: "ok" (the list is returned), "IndexError" (config_segments[i+1]  *)
(* past the end of the list) or "log.error" (the duplicate name report,    *)
(* which ends the process); ret is the local list at that point.           *)
(***************************************************************************)
\* the segment's own start taken for its end
NextStartOwn(cs, k) == parse_segment_start(cs[k])
\* line 54
NextStart(cs, k) == parse_segment_start(cs[k + 1])
\* lines 58-59
NameCollides(seen, segment) ==
    segment.require_unique_name /\ segment.name \in seen
\* every segment's name recorded, whatever its type
SeenAfterAnyType(seen, segment) == seen \cup {segment.name}
\* lines 58-62
SeenAfter(seen, segment) ==
    IF segment.require_unique_name THEN seen \cup {segment.name} ELSE seen

RECURSIVE InitSegLoop(_, _, _, _)
InitSegLoop(cs, k, seen, ret) ==
    IF k > Len(cs) THEN [status |-> "ok", ret |-> ret]
    ELSE IF IsRomposMarker(cs[k]) THEN InitSegLoop(cs, k + 1, seen, ret)
    ELSE IF k + 1 > Len(cs) THEN [status |-> "IndexError", ret |-> ret]
    ELSE LET segment == from_yaml(cs[k], parse_segment_start(cs[k]), NextStart(cs, k))
         IN  IF NameCollides(seen, segment)
             THEN [status |-> "log.error", ret |-> ret]
             ELSE InitSegLoop(cs, k + 1, SeenAfter(seen, segment),
                              Append(ret, segment))

initialize_segments(cs) == InitSegLoop(cs, 1, {}, << >>)

(***************************************************************************)
(* get_segment_symbols (lines 68-92).                                      *)
(***************************************************************************)
is_symbol_isolated(symbol, segs) ==
    Cardinality({k \in DOMAIN segs : contains_vram(segs[k], symbol.vram_start)}) = 1

\* vram attribution that does not ask for the symbol to be isolated
TakesVramPathUnisolated(symbol, segs) == ~Truthy(symbol.rom)
\* line 73: the symbol is attributed by its vram address
TakesVramPath(symbol, segs) ==
    is_symbol_isolated(symbol, segs) /\ ~Truthy(symbol.rom)
\* line 83: the symbol is attributed by its rom address
OwnedByRom(symbol, segment) ==
    Truthy(symbol.rom) /\ contains_rom(segment, symbol.rom[1])
\* an isolated symbol owned by every segment under evaluation
IsOwnedByAll(symbol, segment, segs) ==
    IF TakesVramPath(symbol, segs) THEN TRUE ELSE OwnedByRom(symbol, segment)
\* lines 73-90: the symbol goes to seg_syms (TRUE) or to other_syms (FALSE)
IsOwned(symbol, segment, segs) ==
    IF TakesVramPath(symbol, segs)
    THEN contains_vram(segment, symbol.vram_start)
    ELSE OwnedByRom(symbol, segment)

RECURSIVE SymLoop(_, _, _, _, _)
SymLoop(segment, segs, syms, k, acc) ==
    IF k > Len(syms) THEN acc
    ELSE LET symbol == syms[k] IN
         IF IsOwned(symbol, segment, segs)
         THEN SymLoop(segment, segs, syms, k + 1,
                [acc EXCEPT !.seg_syms = DictAppend(@, symbol.vram_start, symbol)])
         ELSE SymLoop(segment, segs, syms, k + 1,
                [acc EXCEPT !.other_syms = DictAppend(@, symbol.vram_start, symbol)])

get_segment_symbols(segment, segs, syms) ==
    SymLoop(segment, segs, syms, 1, [seg_syms |-> EmptyDict, other_syms |-> EmptyDict])

(***************************************************************************)
(* merge_configs (lines 114-137).  A configuration value is a number, a    *)
(* string, a list or a mapping; kind is its Python type.  Numbers and      *)
(* strings are values; a list or a mapping is an object of the heap, and   *)
(* the value under a key is a reference to it, so that one object may      *)
(* stand under two keys (a YAML alias).  A mapping object keeps its        *)
(* entries in insertion order, the order in which Python visits its keys.  *)
(* merge_configs updates main_config in place and returns it.  The result  *)
(* records how the call ended: "ok" (main_config is returned) or           *)
(* "log.error" (the type mismatch report, which ends the process), and the *)
(* heap at that point.                                                     *)
(***************************************************************************)
NoRef == << >>
IntVal(n) == [kind |-> "int", scalar |-> n, ref |-> NoRef]
StrVal(t) == [kind |-> "str", scalar |-> t, ref |-> NoRef]
ListRef(id) == [kind |-> "list", scalar |-> "", ref |-> id]
DictRef(id) == [kind |-> "dict", scalar |-> "", ref |-> id]
ListObj(l) == [items |-> l, entries |-> << >>]
DictObj(e) == [items |-> << >>, entries |-> e]
Entry(k, v) == [key |-> k, value |-> v]
\* type(value)
TypeOf(value) == value.kind
\* the keys of a mapping object
KeysOf(obj) == {obj.entries[n].key : n \in DOMAIN obj.entries}
IndexOfKey(obj, k) == CHOOSE n \in DOMAIN obj.entries : obj.entries[n].key = k
\* mapping[k]
Lookup(obj, k) == obj.entries[IndexOfKey(obj, k)].value
\* mapping[k] = v: a present key keeps its place, a new key goes last
SetItem(obj, k, v) ==
    IF k \in KeysOf(obj)
    THEN [obj EXCEPT !.entries[IndexOfKey(obj, k)].value = v]
    ELSE [obj EXCEPT !.entries = Append(@, Entry(k, v))]
\* line 129: main_config[curkey] += additional_config[curkey], on the list
\* object itself
ListExtend(a, b) == a \o b
\* line 124
TypeMismatch(a, b) == TypeOf(a) # TypeOf(b)

RECURSIVE MergeLoop(_, _, _, _)
\* lines 121-137, from the idx-th key of additional_config on; main_config
\* and additional_config are the mapping objects mref and aref of the heap
MergeLoop(heap, mref, aref, idx) ==
    IF idx > Len(heap[aref].entries) THEN [status |-> "ok", heap |-> heap]
    ELSE LET curkey == heap[aref].entries[idx].key
             theirs == heap[aref].entries[idx].value
         IN  IF curkey \notin KeysOf(heap[mref])
             THEN MergeLoop([heap EXCEPT ![mref] = SetItem(@, curkey, theirs)],
                            mref, aref, idx + 1)
             ELSE LET ours == Lookup(heap[mref], curkey) IN
             IF TypeMismatch(ours, theirs)
             THEN [status |-> "log.error", heap |-> heap]
             ELSE IF TypeOf(ours) = "list"
             THEN MergeLoop(
                    [heap EXCEPT ![ours.ref].items =
                                    ListExtend(@, heap[theirs.ref].items)],
                    mref, aref, idx + 1)
             ELSE IF TypeOf(ours) = "dict"
             THEN LET sub == MergeLoop(heap, ours.ref, theirs.ref, 1)
                  IN  IF sub.status # "ok" THEN sub
                      ELSE MergeLoop(sub.heap, mref, aref, idx + 1)
             ELSE MergeLoop([heap EXCEPT ![mref] = SetItem(@, curkey, theirs)],
                            mref, aref, idx + 1)

\* the call returns main_config, the object mref
merge_configs(heap, mref, aref) == MergeLoop(heap, mref, aref, 1)

(***************************************************************************)
(* main (lines 190-363), one action per step.  A digest is a sequence of   *)
(* characters; str.lower() maps each upper-case letter to its lower-case   *)
(* one and hexdigest() yields lower-case characters only.                  *)
(***************************************************************************)
ConfigShaChars == {"a", "A", "1"}
DigestChars == {"a", "1"}
LowerChar(c) == IF c = "A" THEN "a" ELSE c
Lower(s) == [k \in DOMAIN s |-> LowerChar(s[k])]
NoSha == [has |-> FALSE, value |-> << >>]
Sha(s) == [has |-> TRUE, value |-> s]

\* the declared value compared as written
e_sha1_verbatim(declared) == declared
\* line 213
e_sha1(declared) == Lower(declared)
\* lines 211-214
Sha1Mismatch == config_sha1.has /\ e_sha1(config_sha1.value) # rom_sha1

NoFile == [exists |-> FALSE, data |-> EmptyDict]
File(d) == [exists |-> TRUE, data |-> d]
\* lines 227-237: a missing or unreadable file gives the empty dict
LoadedCache == IF use_cache /\ disk.exists THEN disk.data ELSE EmptyDict
\* line 240
OptionsChanged(loaded) ==
    use_cache /\ DictGet(loaded, "__options__") # config_options
\* lines 244-246
FreshCache == [k \in {"__options__"} |-> config_options]
\* lines 226-246
CacheAfterLoad ==
    IF OptionsChanged(LoadedCache) THEN FreshCache ELSE LoadedCache

\* symbols.all_symbols, filled by symbols.initialize when mode "code" is active
MainSymbolTable == << [name |-> "sym1", vram_start |-> 0, rom |-> Addr(1)] >>
all_symbols == IF mode_active("code") THEN MainSymbolTable ELSE << >>

\* lines 263-265
Bucket(segment) ==
    IF segment.type = "bin" /\ is_name_default(segment) THEN "unk" ELSE segment.type
\* lines 267-270
InitBucket(counts, t) == IF t \notin DOMAIN seg_sizes THEN DictSet(counts, t, 0) ELSE counts
\* line 271
SizeOrZero(segment) ==
    IF IsNoAddr(segment_size(segment)) THEN 0 ELSE segment_size(segment)[1]
\* lines 276, 299
IsCacheHit(segment, c) == segment_cache(segment) = DictGet(c, unique_id(segment))
\* a scan pass that never consults the store
ScanSkipsNever(segment) == FALSE
\* lines 275-277: the scan pass takes `continue`
ScanSkips(segment) == use_cache /\ IsCacheHit(segment, cache)
\* a store that is written only for the segments that are split
StoreOnMissIfSplit(c, segment) ==
    IF should_split(segment)
    THEN DictSet(c, unique_id(segment), segment_cache(segment))
    ELSE c
\* line 305
StoreOnMiss(c, segment) == DictSet(c, unique_id(segment), segment_cache(segment))
\* line 301: the bucket whose cache-hit counter is incremented
HitBucket(segment) == typ
\* a store that is saved by every run that reaches the end
ShouldSaveCacheAlways == TRUE
\* line 359
ShouldSaveCache == cache # EmptyDict /\ use_cache
\* a writer that is handed the segments last to first
LinkerAddsReversed(segs) == [k \in DOMAIN segs |-> segs[Len(segs) + 1 - k]]
\* lines 315-316: the segments handed to linker_writer.add, in order
LinkerAdds(segs) == segs

WithFps(cs, f) ==
    [k \in DOMAIN cs |-> IF k \in DOMAIN f THEN [cs[k] EXCEPT !.fp = f[k]] ELSE cs[k]]

\* lines 190-209: the command line is parsed, the configuration and the
\* binary are read.  The shape of the descriptor list is that of the
\* scenario; the fingerprints its segments yield are those of this run.
StartRun ==
    /\ pc \in {"idle", "done", "aborted"}
    /\ run < budget
    /\ \E o \in OptionBlocks, uc \in BOOLEAN, m \in ModeSets,
          f \in [RealPositions(config_segments) -> Fps] :
            /\ config_options' = o
            /\ use_cache' = uc
            /\ modes' = m
            /\ config_segments' = WithFps(config_segments, f)
    /\ run' = run + 1
    /\ pc' = "gate"
    /\ cache' = EmptyDict
    /\ all_segments' = << >>
    /\ error' = "none"
    /\ i' = 0
    /\ typ' = "unset"
    /\ seg_sizes' = EmptyDict /\ seg_split' = EmptyDict /\ seg_cached' = EmptyDict
    /\ processed_segments' = << >>
    /\ did_run' = {}
    /\ given_symbols' = EmptyDict
    /\ linker_entries' = << >>
    /\ scan_calls' = {} /\ scan_skipped' = {} /\ split_calls' = {}
    /\ hits' = {} /\ misses' = {} /\ disk_writes' = 0
    /\ UNCHANGED <<budget, config_sha1, rom_sha1, rom_len, disk, last_run, ever_split>>
    /\ UNCHANGED <<segVars, symVars, fmtVars, mergeVars>>

inputVars == <<run, budget, config_segments, config_options, config_sha1,
               rom_sha1, rom_len, use_cache, modes>>
scanVars == <<typ, seg_sizes, seg_split, seg_cached, processed_segments,
              did_run, given_symbols, scan_calls, scan_skipped>>
splitVars == <<split_calls, hits, misses, ever_split>>

\* lines 211-215, the digests agree or none is declared
GatePass ==
    /\ pc = "gate"
    /\ ~Sha1Mismatch
    /\ pc' = "load"
    /\ UNCHANGED <<inputVars, disk, cache, all_segments, error, i, scanVars,
                   splitVars, linker_entries, disk_writes, last_run>>
    /\ UNCHANGED <<segVars, symVars, fmtVars, mergeVars>>

\* lines 214-215: log.error ends the process
GateFail ==
    /\ pc = "gate"
    /\ Sha1Mismatch
    /\ pc' = "aborted"
    /\ error' = "sha1"
    /\ UNCHANGED <<inputVars, disk, cache, all_segments, i, scanVars,
                   splitVars, linker_entries, disk_writes, last_run>>
    /\ UNCHANGED <<segVars, symVars, fmtVars, mergeVars>>

\* lines 217-246
LoadCache ==
    /\ pc = "load"
    /\ cache' = CacheAfterLoad
    /\ pc' = "init"
    /\ UNCHANGED <<inputVars, disk, all_segments, error, i, scanVars,
                   splitVars, linker_entries, disk_writes, last_run>>
    /\ UNCHANGED <<segVars, symVars, fmtVars, mergeVars>>

\* lines 248-258, initialize_segments returns
InitSegmentsOk ==
    /\ pc = "init"
    /\ initialize_segments(config_segments).status = "ok"
    /\ all_segments' = initialize_segments(config_segments).ret
    /\ pc' = "scan"
    /\ i' = 1
    /\ UNCHANGED <<inputVars, disk, cache, error, scanVars,
                   splitVars, linker_entries, disk_writes, last_run>>
    /\ UNCHANGED <<segVars, symVars, fmtVars, mergeVars>>

\* line 249, initialize_segments raises or exits
InitSegmentsAbort ==
    /\ pc = "init"
    /\ initialize_segments(config_segments).status # "ok"
    /\ error' = initialize_segments(config_segments).status
    /\ pc' = "aborted"
    /\ UNCHANGED <<inputVars, disk, cache, all_segments, i, scanVars,
                   splitVars, linker_entries, disk_writes, last_run>>
    /\ UNCHANGED <<segVars, symVars, fmtVars, mergeVars>>

\* lines 262-271: the statistics every iteration of the scan loop updates
ScanPrologue(segment) ==
    /\ typ' = Bucket(segment)
    /\ seg_sizes' = [InitBucket(seg_sizes, Bucket(segment)) EXCEPT
                       ![Bucket(segment)] = @ + SizeOrZero(segment)]
    /\ seg_cached' = InitBucket(seg_cached, Bucket(segment))

\* lines 262-273, 291: should_scan() is false
ScanNotSelected ==
    /\ pc = "scan" /\ i <= Len(all_segments)
    /\ ~should_scan(all_segments[i])
    /\ ScanPrologue(all_segments[i])
    /\ seg_split' = InitBucket(seg_split, Bucket(all_segments[i]))
    /\ i' = i + 1
    /\ UNCHANGED <<pc, inputVars, disk, cache, all_segments, error,
                   processed_segments, did_run, given_symbols, scan_calls,
                   scan_skipped, splitVars, linker_entries, disk_writes, last_run>>
    /\ UNCHANGED <<segVars, symVars, fmtVars, mergeVars>>

\* lines 262-277: the fingerprint is the stored one, continue
ScanCacheSkip ==
    /\ pc = "scan" /\ i <= Len(all_segments)
    /\ should_scan(all_segments[i])
    /\ ScanSkips(all_segments[i])
    /\ ScanPrologue(all_segments[i])
    /\ seg_split' = InitBucket(seg_split, Bucket(all_segments[i]))
    /\ scan_skipped' = scan_skipped \cup {i}
    /\ i' = i + 1
    /\ UNCHANGED <<pc, inputVars, disk, cache, all_segments, error,
                   processed_segments, did_run, given_symbols, scan_calls,
                   splitVars, linker_entries, disk_writes, last_run>>
    /\ UNCHANGED <<segVars, symVars, fmtVars, mergeVars>>

\* lines 262-291: the segment is scanned
ScanRun ==
    /\ pc = "scan" /\ i <= Len(all_segments)
    /\ should_scan(all_segments[i])
    /\ ~ScanSkips(all_segments[i])
    /\ ScanPrologue(all_segments[i])
    /\ given_symbols' =
         IF all_segments[i].needs_symbols
         THEN DictSet(given_symbols, i,
                      get_segment_symbols(all_segments[i], all_segments, all_symbols))
         ELSE given_symbols
    /\ did_run' = did_run \cup {i}
    /\ scan_calls' = scan_calls \cup {i}
    /\ processed_segments' = Append(processed_segments, i)
    /\ seg_split' = [InitBucket(seg_split, Bucket(all_segments[i])) EXCEPT
                       ![Bucket(all_segments[i])] = @ + 1]
    /\ i' = i + 1
    /\ UNCHANGED <<pc, inputVars, disk, cache, all_segments, error,
                   scan_skipped, splitVars, linker_entries, disk_writes, last_run>>
    /\ UNCHANGED <<segVars, symVars, fmtVars, mergeVars>>

\* line 262, the scan loop ends; line 294
ScanDone ==
    /\ pc = "scan" /\ i > Len(all_segments)
    /\ pc' = "split"
    /\ i' = 1
    /\ UNCHANGED <<inputVars, disk, cache, all_segments, error, scanVars,
                   splitVars, linker_entries, disk_writes, last_run>>
    /\ UNCHANGED <<segVars, symVars, fmtVars, mergeVars>>

\* lines 295-302: cache hit
SplitHit ==
    /\ pc = "split" /\ i <= Len(all_segments)
    /\ use_cache /\ IsCacheHit(all_segments[i], cache)
    /\ seg_cached' = [seg_cached EXCEPT ![HitBucket(all_segments[i])] = @ + 1]
    /\ hits' = hits \cup {i}
    /\ i' = i + 1
    /\ UNCHANGED <<pc, inputVars, disk, cache, all_segments, error, typ,
                   seg_sizes, seg_split, processed_segments, did_run,
                   given_symbols, scan_calls, scan_skipped, split_calls, misses,
                   ever_split, linker_entries, disk_writes, last_run>>
    /\ UNCHANGED <<segVars, symVars, fmtVars, mergeVars>>

\* lines 295-310: cache miss, or no cache
SplitRun ==
    /\ pc = "split" /\ i <= Len(all_segments)
    /\ ~(use_cache /\ IsCacheHit(all_segments[i], cache))
    /\ cache' = IF use_cache THEN StoreOnMiss(cache, all_segments[i]) ELSE cache
    /\ misses' = IF use_cache THEN misses \cup {i} ELSE misses
    /\ split_calls' =
         IF should_split(all_segments[i]) THEN split_calls \cup {i} ELSE split_calls
    /\ ever_split' =
         IF should_split(all_segments[i])
         THEN ever_split \cup {<<unique_id(all_segments[i]), segment_cache(all_segments[i])>>}
         ELSE ever_split
    /\ i' = i + 1
    /\ UNCHANGED <<pc, inputVars, disk, all_segments, error, scanVars, hits,
                   linker_entries, disk_writes, last_run>>
    /\ UNCHANGED <<segVars, symVars, fmtVars, mergeVars>>

\* line 295, the split loop ends
SplitDone ==
    /\ pc = "split" /\ i > Len(all_segments)
    /\ pc' = "emit"
    /\ UNCHANGED <<inputVars, disk, cache, all_segments, error, i, scanVars,
                   splitVars, linker_entries, disk_writes, last_run>>
    /\ UNCHANGED <<segVars, symVars, fmtVars, mergeVars>>

\* lines 94-112: known_ratio = rest_size / total_size (line 103) raises
\* ZeroDivisionError for an empty binary, whatever rest_size is
do_statistics(total_size) == IF total_size = 0 THEN "ZeroDivisionError" ELSE "ok"

\* lines 312-356: the linker script, the symbol lists, the warnings, the statistics
Emit ==
    /\ pc = "emit"
    /\ do_statistics(rom_len) = "ok"
    /\ linker_entries' = IF mode_active("ld") THEN LinkerAdds(all_segments) ELSE << >>
    /\ pc' = "save"
    /\ UNCHANGED <<inputVars, disk, cache, all_segments, error, i, scanVars,
                   splitVars, disk_writes, last_run>>
    /\ UNCHANGED <<segVars, symVars, fmtVars, mergeVars>>

\* lines 312-356: the linker script, the symbol lists and the warnings are
\* written, then do_statistics raises and the run ends
EmitStatisticsAbort ==
    /\ pc = "emit"
    /\ do_statistics(rom_len) # "ok"
    /\ linker_entries' = IF mode_active("ld") THEN LinkerAdds(all_segments) ELSE << >>
    /\ error' = do_statistics(rom_len)
    /\ pc' = "aborted"
    /\ UNCHANGED <<inputVars, disk, cache, all_segments, i, scanVars,
                   splitVars, disk_writes, last_run>>
    /\ UNCHANGED <<segVars, symVars, fmtVars, mergeVars>>

\* lines 358-363
SaveCache ==
    /\ pc = "save"
    /\ disk' = IF ShouldSaveCache THEN File(cache) ELSE disk
    /\ disk_writes' = IF ShouldSaveCache THEN disk_writes + 1 ELSE disk_writes
    /\ last_run' = [completed |-> TRUE, use_cache |-> use_cache,
                    options |-> config_options, segments |-> config_segments]
    /\ pc' = "done"
    /\ UNCHANGED <<inputVars, cache, all_segments, error, i, scanVars,
                   splitVars, linker_entries>>
    /\ UNCHANGED <<segVars, symVars, fmtVars, mergeVars>>

MainNext ==
    \/ StartRun
    \/ GatePass
    \/ GateFail
    \/ LoadCache
    \/ InitSegmentsOk
    \/ InitSegmentsAbort
    \/ ScanNotSelected
    \/ ScanCacheSkip
    \/ ScanRun
    \/ ScanDone
    \/ SplitHit
    \/ SplitRun
    \/ SplitDone
    \/ Emit
    \/ EmitStatisticsAbort
    \/ SaveCache

(***************************************************************************)
(* Scenarios.  A descriptor list of main has up to MaxSegs real            *)
(* descriptors at consecutive addresses and, optionally, the closing       *)
(* rompos marker.                                                          *)
(***************************************************************************)
RealAt(a) == {Real(a, t, n, u, "f1") : t \in Types, n \in Names, u \in Ids}
AnyReal == UNION {RealAt(a) : a \in 0..MaxSegs}
RealLists(n) ==
    {s \in [1..n -> AnyReal] :
        /\ \A k \in 1..n : s[k].start = k - 1
        /\ n >= 1 => s[1].id = "s1"}
MainStructures ==
    UNION {UNION {{s, Append(s, Marker(n))} : s \in RealLists(n)} : n \in 0..MaxSegs}

ShaStrings(chars) == [1..ShaLen -> chars]

\* What a run finds: the cache file and the binary, by its length.
Checkout(d, n) == [disk |-> d, rom_len |-> n]
RomLens == {0, 3}

MainInit(structures, shas, checkouts, b) ==
    /\ pc = "idle"
    /\ run = 0
    /\ budget = b
    /\ config_segments \in structures
    /\ config_options = None
    /\ \E sh \in shas : config_sha1 = sh[1] /\ rom_sha1 = sh[2]
    /\ use_cache = FALSE
    /\ modes = {"all"}
    /\ \E c \in checkouts : disk = c.disk /\ rom_len = c.rom_len
    /\ cache = EmptyDict
    /\ all_segments = << >>
    /\ error = "none"
    /\ i = 0
    /\ typ = "unset"
    /\ seg_sizes = EmptyDict /\ seg_split = EmptyDict /\ seg_cached = EmptyDict
    /\ processed_segments = << >>
    /\ did_run = {}
    /\ given_symbols = EmptyDict
    /\ linker_entries = << >>
    /\ scan_calls = {} /\ scan_skipped = {} /\ split_calls = {}
    /\ hits = {} /\ misses = {} /\ disk_writes = 0
    /\ last_run = [completed |-> FALSE, use_cache |-> FALSE, options |-> None,
                   segments |-> << >>]
    /\ ever_split = {}

SegIdle == seg_in = << >> /\ seg_out = [done |-> FALSE, status |-> "", ret |-> << >>]
SymIdle == sym_segments = << >> /\ sym_symbols = << >> /\ sym_out = << >>
FmtIdle == fmt_in = 0 /\ fmt_out = [done |-> FALSE, text |-> << >>]
MergeIdle ==
    /\ merge_main = [ref |-> << >>, heap |-> EmptyDict]
    /\ merge_add = [ref |-> << >>, heap |-> EmptyDict]
    /\ merge_out = [done |-> FALSE, status |-> "", heap |-> EmptyDict]

\* The pipeline, run MaxRuns times from a checkout with no cache file.  The
\* configuration declares no digest, or one the binary does not have; the
\* binary is empty or not.
Init ==
    /\ MainInit(MainStructures,
                {<<NoSha, [k \in 1..ShaLen |-> "a"]>>,
                 <<Sha([k \in 1..ShaLen |-> "1"]), [k \in 1..ShaLen |-> "a"]>>},
                {Checkout(NoFile, n) : n \in RomLens}, MaxRuns)
    /\ SegIdle /\ SymIdle /\ FmtIdle /\ MergeIdle
Next == MainNext
Spec == Init /\ [][Next]_vars

(***************************************************************************)
(* One run of main over every descriptor list, from a checkout with no     *)
(* cache file or with a cache file that an earlier run has left; the       *)
(* binary is non-empty or, with the first of the cache files, empty.       *)
(***************************************************************************)
RunDisks ==
    {NoFile,
     File([k \in {"s1"} |-> "f1"]),
     File([k \in {"__options__", "s1", "s2"} |->
             IF k = "s1" THEN "f2" ELSE IF k = "s2" THEN "f1" ELSE "o1"])}
RunCheckouts ==
    {Checkout(d, 3) : d \in RunDisks}
      \cup {Checkout(File([k \in {"s1"} |-> "f1"]), 0)}
InitRun ==
    /\ MainInit(MainStructures,
                {<<NoSha, [k \in 1..ShaLen |-> "a"]>>,
                 <<Sha([k \in 1..ShaLen |-> "1"]), [k \in 1..ShaLen |-> "a"]>>},
                RunCheckouts, 1)
    /\ SegIdle /\ SymIdle /\ FmtIdle /\ MergeIdle
SpecRun == InitRun /\ [][Next]_vars

(***************************************************************************)
(* One run of main over descriptor lists of up to MaxOrderEntries entries  *)
(* in which a rompos marker may stand at any position, each entry at the   *)
(* address its position gives it; the checkout has a cache file and a      *)
(* non-empty binary, or no cache file and an empty binary.                 *)
(***************************************************************************)
OrderEntriesAt(a) ==
    {Marker(a), Real(a, "code", "a", "s1", "f1"), Real(a, "bin", "a", "s1", "f1"),
     Real(a, "bin", "dflt", "s1", "f1")}
OrderStructures ==
    UNION {{s \in [1..n -> UNION {OrderEntriesAt(a) : a \in 0..MaxOrderEntries}] :
              \A k \in 1..n : s[k].start = k - 1} : n \in 0..MaxOrderEntries}
InitOrder ==
    /\ MainInit(OrderStructures,
                {<<NoSha, [k \in 1..ShaLen |-> "a"]>>,
                 <<Sha([k \in 1..ShaLen |-> "1"]), [k \in 1..ShaLen |-> "a"]>>},
                {Checkout(File([k \in {"s1"} |-> "f1"]), 3), Checkout(NoFile, 0)}, 1)
    /\ SegIdle /\ SymIdle /\ FmtIdle /\ MergeIdle
SpecOrder == InitOrder /\ [][Next]_vars

(***************************************************************************)
(* The checksum gate: one run of main for every declared digest and every  *)
(* digest of the binary, over two descriptor lists, with or without a      *)
(* cache file left by an earlier run, the binary empty or not.             *)
(***************************************************************************)
GateStructures ==
    {<<Real(0, "code", "a", "s1", "f1"), Real(1, "bin", "dflt", "s2", "f1"), Marker(2)>>,
     <<Real(0, "code", "a", "s1", "f1")>>}
GateShas ==
    {<<c, d>> : c \in {NoSha} \cup {Sha(x) : x \in ShaStrings(ConfigShaChars)},
                d \in ShaStrings(DigestChars)}
GateDisks ==
    {NoFile, File([k \in {"__options__", "s1"} |-> IF k = "s1" THEN "f1" ELSE None])}
InitGate ==
    /\ MainInit(GateStructures, GateShas,
                {Checkout(d, n) : d \in GateDisks, n \in RomLens}, 1)
    /\ SegIdle /\ SymIdle /\ FmtIdle /\ MergeIdle
SpecGate == InitGate /\ [][Next]_vars

(***************************************************************************)
(* initialize_segments applied to every descriptor list of up to           *)
(* MaxEntries entries.                                                     *)
(***************************************************************************)
MainIdle ==
    MainInit({<< >>}, {<<NoSha, [k \in 1..ShaLen |-> "a"]>>}, {Checkout(NoFile, 3)}, 0)

SegEntries ==
    {Marker(a) : a \in Addrs}
      \cup {Real(a, t, n, "s1", "f1") : a \in Addrs, t \in Types, n \in Names}
SegInputs == UNION {[1..n -> SegEntries] : n \in 0..MaxEntries}

ApplyInitializeSegments ==
    /\ ~seg_out.done
    /\ seg_out' = [done |-> TRUE,
                   status |-> initialize_segments(seg_in).status,
                   ret |-> initialize_segments(seg_in).ret]
    /\ UNCHANGED <<seg_in, mainVars, symVars, fmtVars, mergeVars>>

InitSegs ==
    /\ MainIdle /\ SymIdle /\ FmtIdle /\ MergeIdle
    /\ seg_in \in SegInputs
    /\ seg_out = [done |-> FALSE, status |-> "", ret |-> << >>]
NextSegs == ApplyInitializeSegments
SpecSegs == InitSegs /\ [][NextSegs]_vars

(***************************************************************************)
(* get_segment_symbols applied, for every segment of a list of up to       *)
(* MaxSymSegs segments, to a symbol table of up to MaxSyms symbols.        *)
(***************************************************************************)
RomRanges == {r \in Addrs \X Addrs : r[1] < r[2]}
VramRanges == {<<NoAddr, NoAddr>>} \cup {<<Addr(r[1]), Addr(r[2])>> : r \in RomRanges}
SymSegs ==
    {[rom_start |-> Addr(r[1]), rom_end |-> Addr(r[2]),
      vram_start |-> v[1], vram_end |-> v[2]] : r \in RomRanges, v \in VramRanges}
SymSegLists == UNION {[1..n -> SymSegs] : n \in 1..MaxSymSegs}
SymVrams == {0, 1}
SymRoms == {NoAddr, Addr(0), Addr(1)}
SymTables ==
    UNION {{t \in [1..n -> [name : 1..MaxSyms, vram_start : SymVrams, rom : SymRoms]] :
              \A k \in 1..n : t[k].name = k} : n \in 0..MaxSyms}

ApplyGetSegmentSymbols ==
    /\ sym_out = << >>
    /\ sym_out' = [k \in DOMAIN sym_segments |->
                     get_segment_symbols(sym_segments[k], sym_segments, sym_symbols)]
    /\ UNCHANGED <<sym_segments, sym_symbols, mainVars, segVars, fmtVars, mergeVars>>

InitSyms ==
    /\ MainIdle /\ SegIdle /\ FmtIdle /\ MergeIdle
    /\ sym_segments \in SymSegLists
    /\ sym_symbols \in SymTables
    /\ sym_out = << >>
NextSyms == ApplyGetSegmentSymbols
SpecSyms == InitSyms /\ [][NextSyms]_vars

(***************************************************************************)
(* fmt_size applied to the byte counts within FmtSpread of 0, of the two   *)
(* thresholds and of their doubles.                                        *)
(***************************************************************************)
FmtSizes ==
    {n \in UNION {(b - FmtSpread)..(b + FmtSpread) :
                    b \in {0, Kilo, 2 * Kilo, Mega, 2 * Mega}} : n >= 0}

ApplyFmtSize ==
    /\ ~fmt_out.done
    /\ fmt_out' = [done |-> TRUE, text |-> fmt_size(fmt_in)]
    /\ UNCHANGED <<fmt_in, mainVars, segVars, symVars, mergeVars>>

InitFmt ==
    /\ MainIdle /\ SegIdle /\ SymIdle /\ MergeIdle
    /\ fmt_in \in FmtSizes
    /\ fmt_out = [done |-> FALSE, text |-> << >>]
NextFmt == ApplyFmtSize
SpecFmt == InitFmt /\ [][NextFmt]_vars

(***************************************************************************)
(* merge_configs applied to two configuration documents, each loaded from  *)
(* its own file.  Key "a" holds a scalar, a list of up to MaxListLen items *)
(* or a mapping over the keys "x" and "y"; key "b" holds a scalar or a     *)
(* list or, in the first document, an alias of the list or mapping under   *)
(* "a".  The keys come in either order.                                    *)
(***************************************************************************)
Plain(kind, scalar, items, entries) ==
    [kind |-> kind, scalar |-> scalar, items |-> items, entries |-> entries]
Scalars == {Plain("int", "1", << >>, << >>), Plain("int", "2", << >>, << >>),
            Plain("str", "s", << >>, << >>)}
Lists == {Plain("list", "", l, << >>) :
            l \in UNION {[1..n -> {"1", "2"}] : n \in 0..MaxListLen}}
SubLeaves == {Plain("int", "1", << >>, << >>), Plain("str", "s", << >>, << >>),
              Plain("list", "", <<"1">>, << >>), Plain("list", "", <<"2">>, << >>)}
\* the mappings over some of the keys, in every order of insertion
OrderedOver(keys, values) ==
    UNION {{e \in [1..n -> {Entry(k, v) : k \in keys, v \in values}] :
              \A p, q \in 1..n : e[p].key = e[q].key => p = q} :
           n \in 0..Cardinality(keys)}
SubDicts == {Plain("dict", "", << >>, e) : e \in OrderedOver({"x", "y"}, SubLeaves)}
Documents ==
    {e \in OrderedOver({"a", "b"}, Scalars \cup Lists \cup SubDicts) :
        \A n \in DOMAIN e : e[n].key = "b" => e[n].value \in Scalars \cup Lists}

\* lines 198-199, yaml.load: the objects of a loaded mapping, one for the
\* mapping itself under id and one for every list or mapping it holds
RECURSIVE Load(_, _)
RECURSIVE LoadChildren(_, _, _)
ValueAt(plain, id) ==
    IF plain.kind \in {"list", "dict"}
    THEN [kind |-> plain.kind, scalar |-> "", ref |-> id]
    ELSE [kind |-> plain.kind, scalar |-> plain.scalar, ref |-> NoRef]
Load(entries, id) ==
    (id :> DictObj([n \in DOMAIN entries |->
                      Entry(entries[n].key,
                            ValueAt(entries[n].value, Append(id, entries[n].key)))]))
      @@ LoadChildren(entries, id, 1)
LoadChildren(entries, id, n) ==
    IF n > Len(entries) THEN EmptyDict
    ELSE LET plain == entries[n].value
             cid == Append(id, entries[n].key)
         IN  (IF plain.kind = "list" THEN cid :> ListObj(plain.items)
              ELSE IF plain.kind = "dict" THEN Load(plain.entries, cid)
              ELSE EmptyDict)
               @@ LoadChildren(entries, id, n + 1)
\* b: *x for a: &x, the object under "a" also under "b"
LoadAliased(entries, id) ==
    [Load(entries, id) EXCEPT ![id] = SetItem(@, "b", Lookup(@, "a"))]

MainRef == <<"main">>
AddRef == <<"add">>
AliasedDocuments ==
    {e \in Documents : Len(e) = 1 /\ e[1].key = "a"
                          /\ e[1].value.kind \in {"list", "dict"}}
MainHeaps ==
    {Load(e, MainRef) : e \in Documents}
      \cup {LoadAliased(e, MainRef) : e \in AliasedDocuments}
AddHeaps == {Load(e, AddRef) : e \in Documents}

ApplyMergeConfigs ==
    /\ ~merge_out.done
    /\ LET out == merge_configs(merge_main.heap @@ merge_add.heap,
                                merge_main.ref, merge_add.ref)
       IN  merge_out' = [done |-> TRUE, status |-> out.status, heap |-> out.heap]
    /\ UNCHANGED <<merge_main, merge_add, mainVars, segVars, symVars, fmtVars>>

InitMerge ==
    /\ MainIdle /\ SegIdle /\ SymIdle /\ FmtIdle
    /\ merge_main \in {[ref |-> MainRef, heap |-> h] : h \in MainHeaps}
    /\ merge_add \in {[ref |-> AddRef, heap |-> h] : h \in AddHeaps}
    /\ merge_out = [done |-> FALSE, status |-> "", heap |-> EmptyDict]
NextMerge == ApplyMergeConfigs
SpecMerge == InitMerge /\ [][NextMerge]_vars

(***************************************************************************)
(* Properties.                                                             *)
(***************************************************************************)
InSplitPass == pc = "split"
AfterSplitPass == pc \in {"emit", "save"}
InRun == pc \in {"gate", "load", "init", "scan", "split", "emit", "save"}
AllIndices == DOMAIN all_segments
\* The run in progress has caching enabled and follows a completed run that
\* had caching enabled, the same options block and the same descriptor list
\* with the same fingerprints.
SameAsLastRun ==
    /\ last_run.completed /\ last_run.use_cache /\ use_cache
    /\ last_run.options = config_options
    /\ last_run.segments = config_segments
DistinctIds ==
    \A j, k \in RealPositions(config_segments) :
        config_segments[j].id = config_segments[k].id => j = k

\* C1: in a run that repeats the last completed run, with caching enabled in
\* both and the options block and every fingerprint unchanged, split() is
\* invoked on no segment and every segment takes the cache-hit branch of the
\* split pass.
C1_CacheIdempotence ==
    ((InSplitPass \/ AfterSplitPass) /\ SameAsLastRun) =>
        /\ split_calls = {}
        /\ misses = {}
        /\ AfterSplitPass => hits = AllIndices

\* The same, for descriptor lists whose segments have pairwise distinct ids.
C1_IdempotenceDistinctIds == DistinctIds => C1_CacheIdempotence

\* The options block stored in the cache file, None when there is none.
StoredOptions == IF disk.exists THEN DictGet(disk.data, "__options__") ELSE None
\* Caching is enabled and the options block is not the stored one.  The cache
\* file is the one the run found until the run saves its own.
OptionsDiffer ==
    /\ pc \in {"init", "scan", "split", "emit", "save"}
    /\ use_cache
    /\ StoredOptions # config_options

\* C2: with caching enabled and an options block that differs from the one
\* stored under __options__, the store is replaced by one holding only the
\* current __options__ before any lookup, and every segment is a cache miss in
\* the scan pass and in the split pass.
C2_CacheInvalidation ==
    OptionsDiffer =>
        /\ pc \in {"init", "scan"} => cache = [k \in {"__options__"} |-> config_options]
        /\ scan_skipped = {}
        /\ hits = {}

\* The same, for descriptor lists whose segments have pairwise distinct ids.
C2_InvalidationDistinctIds == DistinctIds => C2_CacheInvalidation

RECURSIVE SumDict(_)
SumDict(d) ==
    IF DOMAIN d = {} THEN 0
    ELSE LET k == CHOOSE x \in DOMAIN d : TRUE
         IN  d[k] + SumDict([x \in (DOMAIN d) \ {k} |-> d[x]])

\* C3: in the split pass with caching enabled, a segment whose fingerprint is
\* the value stored under its id is not split and a cache-hit counter is
\* incremented; for any other segment the store entry of its id is set to the
\* fingerprint, whether or not should_split() holds.  With caching disabled no
\* segment is skipped and the store is never written.
C3_SplitPassContract ==
    /\ [][(pc = "split" /\ i \in AllIndices /\ i' = i + 1) =>
            LET seg == all_segments[i]
                stored == IF seg.id \in DOMAIN cache THEN cache[seg.id] ELSE None
            IN  IF use_cache /\ seg.fp = stored
                THEN /\ split_calls' = split_calls
                     /\ SumDict(seg_cached') = SumDict(seg_cached) + 1
                     /\ cache' = cache
                ELSE /\ (i \in split_calls') = should_split(seg)
                     /\ seg_cached' = seg_cached
                     /\ hits' = hits
                     /\ IF use_cache
                        THEN /\ seg.id \in DOMAIN cache' /\ cache'[seg.id] = seg.fp
                             /\ \A k \in DOMAIN cache : k # seg.id =>
                                   k \in DOMAIN cache' /\ cache'[k] = cache[k]
                        ELSE cache' = cache]_vars
    /\ []((InRun /\ ~use_cache) =>
            cache = EmptyDict /\ hits = {} /\ scan_skipped = {})
    /\ [][(InRun /\ ~use_cache) => disk' = disk]_vars

\* A split pass in which one segment was a cache hit and another was a miss
\* that should_split() excluded, its store entry updated all the same.
C3_Witness ==
    /\ pc = "emit" /\ use_cache
    /\ hits # {}
    /\ \E k \in misses :
          /\ k \notin split_calls
          /\ DictGet(cache, all_segments[k].id) = all_segments[k].fp
          /\ DictGet(disk.data, all_segments[k].id) # all_segments[k].fp

\* get_segment_symbols has been applied to every segment of sym_segments.
SymApplied == sym_out # << >>
\* The segments whose vram range contains the symbol's vram address.
VramOwners(symbol) ==
    {k \in DOMAIN sym_segments :
        /\ sym_segments[k].vram_start # NoAddr /\ sym_segments[k].vram_end # NoAddr
        /\ sym_segments[k].vram_start[1] <= symbol.vram_start
        /\ symbol.vram_start < sym_segments[k].vram_end[1]}
RomContains(k, symbol) ==
    /\ sym_segments[k].rom_start[1] <= symbol.rom[1]
    /\ symbol.rom[1] < sym_segments[k].rom_end[1]
\* The symbol is in the owned (external) set returned for segment k, under
\* its vram address.
InOwned(k, symbol) ==
    /\ symbol.vram_start \in DOMAIN sym_out[k].seg_syms
    /\ symbol \in Range(sym_out[k].seg_syms[symbol.vram_start])
InExternal(k, symbol) ==
    /\ symbol.vram_start \in DOMAIN sym_out[k].other_syms
    /\ symbol \in Range(sym_out[k].other_syms[symbol.vram_start])

\* C4, as stated: a symbol without ROM address whose vram address exactly one
\* segment contains is in that segment's owned set, and in neither the owned
\* nor the external set of any other segment.
C4_IsolatedNowhereElse ==
    SymApplied =>
        \A symbol \in Range(sym_symbols) :
            (symbol.rom = NoAddr /\ Cardinality(VramOwners(symbol)) = 1) =>
                \A k \in DOMAIN sym_segments :
                    IF k \in VramOwners(symbol)
                    THEN InOwned(k, symbol)
                    ELSE ~InOwned(k, symbol) /\ ~InExternal(k, symbol)

\* C4, amended: a symbol without ROM address whose vram address exactly one
\* segment contains is in that segment's owned set only, and in the external
\* set, not the owned set, of every other segment.
C4_IsolatedOwnedOnce ==
    SymApplied =>
        \A symbol \in Range(sym_symbols) :
            (symbol.rom = NoAddr /\ Cardinality(VramOwners(symbol)) = 1) =>
                \A k \in DOMAIN sym_segments :
                    IF k \in VramOwners(symbol)
                    THEN InOwned(k, symbol) /\ ~InExternal(k, symbol)
                    ELSE ~InOwned(k, symbol) /\ InExternal(k, symbol)

\* An isolated symbol without ROM address, evaluated for its owner and for
\* another segment.
C4_Witness ==
    /\ SymApplied
    /\ \E symbol \in Range(sym_symbols) :
          /\ symbol.rom = NoAddr
          /\ Cardinality(VramOwners(symbol)) = 1
          /\ \E k, j \in DOMAIN sym_segments :
                /\ k \in VramOwners(symbol) /\ j \notin VramOwners(symbol)
                /\ InOwned(k, symbol) /\ InExternal(j, symbol)

\* C5: a symbol whose vram address two or more segments contain is in a
\* segment's owned set only when it has a ROM address that the segment's ROM
\* range contains; without ROM address it is in the external set of each of
\* the segments that contain its vram address.
C5_AmbiguousVram ==
    SymApplied =>
        \A symbol \in Range(sym_symbols) :
            Cardinality(VramOwners(symbol)) >= 2 =>
                /\ \A k \in DOMAIN sym_segments :
                      InOwned(k, symbol) =>
                          symbol.rom # NoAddr /\ RomContains(k, symbol)
                /\ symbol.rom = NoAddr =>
                      \A k \in VramOwners(symbol) :
                          InExternal(k, symbol) /\ ~InOwned(k, symbol)

\* A symbol without ROM address in the external sets of the two segments that
\* contain its vram address.
C5_Witness ==
    /\ SymApplied
    /\ \E symbol \in Range(sym_symbols) :
          /\ symbol.rom = NoAddr
          /\ Cardinality(VramOwners(symbol)) = 2
          /\ \A k \in VramOwners(symbol) : InExternal(k, symbol)

\* C6: a symbol with an explicit ROM address, 0 included, is in the owned set
\* of a segment exactly when the segment's ROM range contains that address,
\* and in its external set otherwise, whatever its vram address.
C6_RomAttribution ==
    SymApplied =>
        \A symbol \in Range(sym_symbols) :
            symbol.rom # NoAddr =>
                \A k \in DOMAIN sym_segments :
                    /\ InOwned(k, symbol) <=> RomContains(k, symbol)
                    /\ InExternal(k, symbol) <=> ~RomContains(k, symbol)

\* The same, for the symbols whose ROM address is not 0.
C6_RomAttributionNonZero ==
    SymApplied =>
        \A symbol \in Range(sym_symbols) :
            (symbol.rom # NoAddr /\ symbol.rom # Addr(0)) =>
                \A k \in DOMAIN sym_segments :
                    /\ InOwned(k, symbol) <=> RomContains(k, symbol)
                    /\ InExternal(k, symbol) <=> ~RomContains(k, symbol)

\* The position of the k-th real descriptor of a descriptor list.
NthReal(cs, k) ==
    CHOOSE p \in RealPositions(cs) :
        Cardinality({q \in RealPositions(cs) : q <= p}) = k
NumReal(cs) == Cardinality(RealPositions(cs))
\* Two real descriptors of a type that requires a unique name share a name.
UniqueNameClash(cs) ==
    \E p, q \in RealPositions(cs) :
        /\ p < q
        /\ cs[p].type = "code" /\ cs[q].type = "code"
        /\ cs[p].name = cs[q].name

\* C7: the segment built for a real descriptor that another entry follows
\* starts at the descriptor's own start and ends at the address of the next
\* entry, marker or real; every such descriptor has its segment when
\* initialize_segments returns.
C7_RangeResolution ==
    seg_out.done =>
        /\ Len(seg_out.ret) <= NumReal(seg_in)
        /\ \A k \in DOMAIN seg_out.ret :
              LET p == NthReal(seg_in, k)
              IN  p < Len(seg_in) =>
                    /\ seg_out.ret[k].rom_start = <<seg_in[p].start>>
                    /\ seg_out.ret[k].rom_end = <<seg_in[p + 1].start>>
        /\ seg_out.status = "ok" => Len(seg_out.ret) = NumReal(seg_in)
        /\ seg_out.status = "IndexError" => Len(seg_out.ret) = NumReal(seg_in) - 1

\* Two real descriptors and the closing marker, at three different addresses:
\* the second segment ends where the marker says.
C7_Witness ==
    /\ seg_out.done /\ seg_out.status = "ok"
    /\ Len(seg_in) = 3
    /\ RealPositions(seg_in) = {1, 2}
    /\ seg_in[1].start = 0 /\ seg_in[2].start = 1 /\ seg_in[3].start = 2
    /\ seg_out.ret[1].rom_end = <<1>>
    /\ seg_out.ret[2].rom_start = <<1>> /\ seg_out.ret[2].rom_end = <<2>>

\* C8: for a descriptor list whose last entry is a real descriptor,
\* initialize_segments returns the complete segment list, the last segment
\* open-ended.
C8_OpenEndedLast ==
    (/\ seg_out.done
     /\ Len(seg_in) >= 1
     /\ ~IsRomposMarker(seg_in[Len(seg_in)])
     /\ ~UniqueNameClash(seg_in)) =>
        /\ seg_out.status = "ok"
        /\ Len(seg_out.ret) = NumReal(seg_in)
        /\ seg_out.ret[Len(seg_out.ret)].rom_end = NoAddr

\* C9: a run whose descriptor list has two segments of a type that requires a
\* unique name under one name aborts: no segment list, no scan, no split, no
\* write of the cache file.  The duplicate name is what is reported unless
\* the run failed on something else first, and it is reported only for two
\* such segments: a segment of another type never counts.
C9_NameUniqueness ==
    /\ (UniqueNameClash(config_segments)
          /\ pc \in {"scan", "split", "emit", "save", "done", "aborted"}) =>
            /\ pc = "aborted"
            /\ all_segments = << >>
            /\ scan_calls = {} /\ split_calls = {} /\ hits = {} /\ misses = {}
            /\ disk_writes = 0
            /\ (error # "sha1" /\ IsRomposMarker(config_segments[Len(config_segments)]))
                  => error = "log.error"
    /\ error = "log.error" => UniqueNameClash(config_segments)

\* A run with caching enabled that stopped on the duplicate name, its store
\* loaded, invalidated and never written.
C9_Witness ==
    /\ pc = "aborted" /\ error = "log.error"
    /\ use_cache /\ cache # EmptyDict
    /\ disk.exists /\ disk.data # cache
    /\ UniqueNameClash(config_segments)

UpperChar(c) == IF c = "a" THEN "A" ELSE c
SameHexIgnoringCase(x, y) ==
    /\ Len(x) = Len(y)
    /\ \A k \in DOMAIN x : UpperChar(x[k]) = UpperChar(y[k])

\* C10: with a declared sha1, the run goes past the gate only if the declared
\* value equals the digest of the binary up to the case of its letters, and it
\* does go past it then; on a mismatch it aborts with no cache loaded or
\* written and no segment built, scanned or split.
C10_ChecksumGate ==
    /\ (config_sha1.has
          /\ pc \in {"load", "init", "scan", "split", "emit", "save", "done"}) =>
            SameHexIgnoringCase(config_sha1.value, rom_sha1)
    /\ (config_sha1.has /\ SameHexIgnoringCase(config_sha1.value, rom_sha1)) =>
            error # "sha1"
    /\ ~config_sha1.has => error # "sha1"
    /\ (config_sha1.has /\ ~SameHexIgnoringCase(config_sha1.value, rom_sha1)
          /\ pc \notin {"idle", "gate"}) =>
            /\ pc = "aborted" /\ error = "sha1"
            /\ cache = EmptyDict
            /\ all_segments = << >>
            /\ scan_calls = {} /\ split_calls = {} /\ hits = {} /\ misses = {}
            /\ disk_writes = 0

\* A run with caching enabled and a cache file present that stopped at the
\* gate.
C10_Witness ==
    /\ pc = "aborted" /\ error = "sha1"
    /\ config_sha1.has /\ config_sha1.value # rom_sha1
    /\ use_cache /\ disk.exists /\ cache = EmptyDict

\* The segment was built from the descriptor: same type, name and start.
BuiltFrom(segment, seg_yaml) ==
    /\ segment.type = seg_yaml.type
    /\ segment.name = seg_yaml.name
    /\ segment.rom_start = <<seg_yaml.start>>
\* The list has one segment per real descriptor of cs, in the order of cs.
FollowsDescriptors(segs, cs) ==
    /\ Len(segs) = NumReal(cs)
    /\ \A k \in DOMAIN segs : BuiltFrom(segs[k], cs[NthReal(cs, k)])
Permuted(cs, f) == [k \in DOMAIN cs |-> cs[f[k]]]

\* C11: the list initialize_segments returns has exactly one segment per
\* non-marker descriptor, in the descriptors' order, and no segment for a
\* marker; the segments added to the linker writer are that list in that
\* order; and for every permutation of the descriptors under which
\* initialize_segments returns, the list it returns follows the permuted order.
C11_OrderingEndToEnd ==
    /\ pc \in {"scan", "split", "emit", "save", "done"} =>
          FollowsDescriptors(all_segments, config_segments)
    /\ ((pc \in {"save", "done"} \/ error = "ZeroDivisionError")
          /\ mode_active("ld")) =>
          /\ linker_entries = all_segments
          /\ FollowsDescriptors(linker_entries, config_segments)
    /\ pc = "emit" =>
          \A f \in Permutations(DOMAIN config_segments) :
              LET out == initialize_segments(Permuted(config_segments, f))
              IN  out.status = "ok" =>
                    FollowsDescriptors(out.ret, Permuted(config_segments, f))

\* A completed run whose descriptor list has a marker between two real
\* descriptors: two different segments reached the linker writer, in order.
C11_Witness ==
    /\ pc = "done" /\ mode_active("ld")
    /\ Len(config_segments) = 4
    /\ RealPositions(config_segments) = {1, 3}
    /\ Len(linker_entries) = 2
    /\ linker_entries[1].name # linker_entries[2].name
    /\ linker_entries[1].rom_start = <<0>> /\ linker_entries[2].rom_start = <<2>>

\* C12: for a non-negative n, fmt_size(n) is "<n> B" when n < 1000,
\* "<n div 1000> KB" when 1000 <= n < 1,000,000 and "<n div 1,000,000> MB"
\* when n >= 1,000,000, the inputs 1000 and 1,000,000 included.
C12_ByteFormatter ==
    fmt_out.done =>
        fmt_out.text =
            IF fmt_in < 1000 THEN Str(fmt_in) \o <<" ", "B">>
            ELSE IF fmt_in < 1000000 THEN Str(fmt_in \div 1000) \o <<" ", "K", "B">>
            ELSE Str(fmt_in \div 1000000) \o <<" ", "M", "B">>

\* The same, for every byte count other than the two thresholds.
C12_FormatterOffThresholds ==
    (fmt_in # 1000 /\ fmt_in # 1000000) => C12_ByteFormatter

\* At the thresholds fmt_size stays in the smaller unit.
C12_AtThresholds ==
    /\ (fmt_out.done /\ fmt_in = 1000) => fmt_out.text = <<"1", "0", "0", "0", " ", "B">>
    /\ (fmt_out.done /\ fmt_in = 1000000) =>
          fmt_out.text = <<"1", "0", "0", "0", " ", "K", "B">>

MergeApplied == merge_out.done
MergeReturned == merge_out.done /\ merge_out.status = "ok"
\* What a value of the heap reads as: its type and its content, the
\* mappings as functions of their keys.
RECURSIVE Content(_, _)
Content(heap, value) ==
    [kind |-> value.kind,
     scalar |-> value.scalar,
     items |-> IF value.kind = "list" THEN heap[value.ref].items ELSE << >>,
     map |-> IF value.kind = "dict"
             THEN [k \in KeysOf(heap[value.ref]) |->
                     Content(heap, Lookup(heap[value.ref], k))]
             ELSE EmptyDict]
\* The two documents as loaded, and main_config after the call.
MainDoc == Content(merge_main.heap, DictRef(merge_main.ref)).map
AddDoc == Content(merge_add.heap, DictRef(merge_add.ref)).map
OutDoc == Content(merge_out.heap, DictRef(merge_main.ref)).map
\* Some list or mapping of the heap stands under two keys.
SharesObject(heap) ==
    \E o1, o2 \in DOMAIN heap :
        \E n1 \in DOMAIN heap[o1].entries, n2 \in DOMAIN heap[o2].entries :
            /\ <<o1, n1>> # <<o2, n2>>
            /\ heap[o1].entries[n1].value.ref # NoRef
            /\ heap[o1].entries[n1].value.ref = heap[o2].entries[n2].value.ref

SharedKeys(m, a) == (DOMAIN m) \cap (DOMAIN a)
IsScalar(value) == value.kind \in {"int", "str"}
BothOfKind(x, y, kind) == x.kind = kind /\ y.kind = kind
\* Some key of both mappings, or of two mappings they hold under one key,
\* holds values of two different types.
TypesDiffer(m, a) ==
    \E k \in SharedKeys(m, a) :
        \/ m[k].kind # a[k].kind
        \/ /\ BothOfKind(m[k], a[k], "dict")
           /\ \E j \in SharedKeys(m[k].map, a[k].map) :
                 m[k].map[j].kind # a[k].map[j].kind
\* The same, for a list on one side and a mapping on the other.
ListAgainstMapping(m, a) ==
    \E k \in SharedKeys(m, a) :
        \/ {m[k].kind, a[k].kind} = {"list", "dict"}
        \/ /\ BothOfKind(m[k], a[k], "dict")
           /\ \E j \in SharedKeys(m[k].map, a[k].map) :
                 {m[k].map[j].kind, a[k].map[j].kind} = {"list", "dict"}
\* The key-by-key merge of two mappings that hold scalars and lists.
MergedMapping(m, a) ==
    [j \in (DOMAIN m) \cup (DOMAIN a) |->
        IF j \notin DOMAIN a THEN m[j]
        ELSE IF j \notin DOMAIN m THEN a[j]
        ELSE IF BothOfKind(m[j], a[j], "list")
             THEN [m[j] EXCEPT !.items = m[j].items \o a[j].items]
        ELSE a[j]]

\* C13: merge_configs returns unless two values under one key differ in
\* type, and the mapping it returns has the keys of both documents: a key
\* list-valued in both holds the first document's items followed by the
\* second's, a key mapping-valued in both holds the key-by-key merge of the
\* two mappings, a key of only one document holds that document's value.
C13_MergeContainers ==
    MergeApplied =>
        /\ ~TypesDiffer(MainDoc, AddDoc) => merge_out.status = "ok"
        /\ merge_out.status = "ok" =>
              /\ DOMAIN OutDoc = (DOMAIN MainDoc) \cup (DOMAIN AddDoc)
              /\ \A k \in DOMAIN OutDoc :
                    LET out == OutDoc[k] IN
                    /\ k \notin DOMAIN AddDoc => out = MainDoc[k]
                    /\ k \notin DOMAIN MainDoc => out = AddDoc[k]
                    /\ k \in SharedKeys(MainDoc, AddDoc) =>
                          /\ BothOfKind(MainDoc[k], AddDoc[k], "list") =>
                                /\ out.kind = "list"
                                /\ out.items = MainDoc[k].items \o AddDoc[k].items
                          /\ BothOfKind(MainDoc[k], AddDoc[k], "dict") =>
                                /\ out.kind = "dict"
                                /\ out.map = MergedMapping(MainDoc[k].map,
                                                           AddDoc[k].map)

\* The same, for a first document in which no list or mapping stands under
\* two keys.
C13_MergeUnaliased == ~SharesObject(merge_main.heap) => C13_MergeContainers

\* A first document with one list under the keys "a" and "b": what the
\* second document appends to "a" is appended to "b" as well.
C13_AliasedListGrows ==
    (/\ MergeReturned
     /\ SharesObject(merge_main.heap)
     /\ MainDoc["a"].kind = "list"
     /\ "a" \in DOMAIN AddDoc /\ "b" \notin DOMAIN AddDoc) =>
        /\ OutDoc["a"].items = MainDoc["a"].items \o AddDoc["a"].items
        /\ OutDoc["b"].items = MainDoc["b"].items \o AddDoc["a"].items

\* C14: a key that holds a scalar in both documents, a number in one and a
\* string in the other included, holds the later document's value in the
\* result; a fatal error is signalled only when some key holds a list in one
\* document and a mapping in the other.
C14_MergeScalars ==
    MergeApplied =>
        /\ merge_out.status = "log.error" => ListAgainstMapping(MainDoc, AddDoc)
        /\ (\A k \in SharedKeys(MainDoc, AddDoc) :
                MainDoc[k].kind = AddDoc[k].kind
                    \/ (IsScalar(MainDoc[k]) /\ IsScalar(AddDoc[k])))
              => /\ merge_out.status = "ok"
                 /\ \A k \in SharedKeys(MainDoc, AddDoc) :
                       (IsScalar(MainDoc[k]) /\ IsScalar(AddDoc[k])) =>
                           OutDoc[k] = AddDoc[k]

\* What merge_configs does: a fatal error is signalled exactly when two
\* values under one key differ in type, and a key that holds a scalar of one
\* type in both documents holds the later document's value in the result.
C14_ScalarsOfOneType ==
    MergeApplied =>
        /\ merge_out.status = "log.error" <=> TypesDiffer(MainDoc, AddDoc)
        /\ merge_out.status = "ok" =>
              \A k \in SharedKeys(MainDoc, AddDoc) :
                  IsScalar(MainDoc[k]) => OutDoc[k] = AddDoc[k]

\* A number under a key of the first document and a string under the same
\* key of the second: the merge is fatal.
C14_NumberAgainstString ==
    (/\ MergeApplied
     /\ DOMAIN MainDoc = {"a"} /\ MainDoc["a"].kind = "int"
     /\ DOMAIN AddDoc = {"a"} /\ AddDoc["a"].kind = "str") =>
        merge_out.status = "log.error"

\* The keys of the second document are visited in insertion order: with
\* "b" new and inserted before a mismatching "a", main_config has "b" when
\* the error is reported.
C14_StateAtError ==
    (/\ MergeApplied /\ merge_out.status = "log.error"
     /\ DOMAIN MainDoc = {"a"} /\ DOMAIN AddDoc = {"a", "b"}) =>
        ("b" \in DOMAIN OutDoc <=>
            merge_add.heap[merge_add.ref].entries[1].key = "b")

\* The segments of a statistics bucket among the given indices.
InBucket(indices, b) == {k \in indices : Bucket(all_segments[k]) = b}
Buckets == {Bucket(all_segments[k]) : k \in AllIndices}

\* C15: after the split pass, the cache-hit count of each statistics bucket
\* is the number of segments of that bucket that took the cache-hit branch:
\* every hit is counted in the bucket of the segment that was the hit.
C15_HitAttribution ==
    AfterSplitPass =>
        \A b \in Buckets : seg_cached[b] = Cardinality(InBucket(hits, b))

\* What the split pass does: every hit is counted in the bucket of the last
\* segment of the list, the one `typ` was left at by the scan pass.
C15_HitsCountedInLastBucket ==
    (AfterSplitPass /\ all_segments # << >>) =>
        \A b \in Buckets :
            seg_cached[b] =
                IF b = Bucket(all_segments[Len(all_segments)])
                THEN Cardinality(hits) ELSE 0

\* C16: after a run, the split count of each statistics bucket is the number
\* of segments of that bucket on which split() was invoked in the split pass.
C16_SplitCount ==
    AfterSplitPass =>
        \A b \in Buckets : seg_split[b] = Cardinality(InBucket(split_calls, b))

\* The same, for descriptor lists whose segments have pairwise distinct ids.
C16_SplitCountDistinctIds == DistinctIds => C16_SplitCount

\* What the run counts: the segments of the bucket that the scan pass scanned.
C16_CountsScans ==
    AfterSplitPass =>
        \A b \in Buckets : seg_split[b] = Cardinality(InBucket(scan_calls, b))

\* The value stored for the segment's id, None when there is none.
StoredFor(segment) ==
    IF segment.id \in DOMAIN cache THEN cache[segment.id] ELSE None

\* C17: in the scan pass with caching enabled, the step over a segment whose
\* fingerprint is the value stored for its id invokes no scan(), grants no
\* symbol sets, sets no did_run and processes no segment; and no step of the
\* scan pass writes the store or the cache file.
C17_ScanCacheSkip ==
    /\ [][(pc = "scan" /\ i \in AllIndices /\ use_cache
             /\ all_segments[i].fp = StoredFor(all_segments[i])) =>
               /\ scan_calls' = scan_calls
               /\ given_symbols' = given_symbols
               /\ did_run' = did_run
               /\ processed_segments' = processed_segments]_vars
    /\ [][pc = "scan" => (cache' = cache /\ disk' = disk)]_vars

\* A scan pass that skipped a segment that needs symbols and scanned another.
C17_Witness ==
    /\ pc = "split" /\ use_cache
    /\ \E k \in scan_skipped :
          /\ all_segments[k].needs_symbols
          /\ k \notin DOMAIN given_symbols
          /\ k \notin did_run
    /\ scan_calls # {}

\* C18: the cache file is written at most once per run, by the last step of
\* the run, after every segment has gone through the scan pass and the split
\* pass and the artifacts have been emitted, and only with caching enabled
\* and a non-empty store, which is what is written; a run that aborts or
\* that has caching disabled leaves the cache file as it found it.
C18_CachePersistence ==
    /\ [][(disk' # disk \/ disk_writes' > disk_writes) =>
            /\ pc = "save" /\ pc' = "done"
            /\ use_cache /\ cache # EmptyDict
            /\ disk' = File(cache)
            /\ disk_writes = 0
            /\ i > Len(all_segments)
            /\ hits \cup misses = AllIndices
            /\ mode_active("ld") => linker_entries = all_segments]_vars
    /\ [](disk_writes <= 1)
    /\ []((pc = "aborted" \/ (InRun /\ ~use_cache)) => disk_writes = 0)
    /\ []((pc = "done" /\ use_cache /\ cache # EmptyDict) =>
            (disk_writes = 1 /\ disk = File(cache)))

\* A completed run with caching enabled that replaced the cache file it
\* found with its own store.
C18_Witness ==
    /\ pc = "done" /\ use_cache
    /\ disk_writes = 1
    /\ disk = File(cache)
    /\ misses # {} /\ hits # {}

\* The runs so far all had caching enabled and the same options block: this
\* is the first run, or the second after a completed one.
CachingThroughout ==
    /\ use_cache
    /\ \/ run = 1
       \/ /\ run = 2 /\ last_run.completed /\ last_run.use_cache
          /\ last_run.options = config_options

\* C19: over runs with caching enabled and one options block, a segment takes
\* the cache-hit branch of the split pass only if split() has been invoked on
\* a segment with its id and its fingerprint.
C19_NoStaleHit ==
    CachingThroughout =>
        \A k \in hits :
            <<all_segments[k].id, all_segments[k].fp>> \in ever_split

\* The same, for descriptor lists whose segments have pairwise distinct ids.
C19_NoStaleHitDistinctIds == DistinctIds => C19_NoStaleHit

\* A consequence of C19: a segment that should_split() selects in this run is
\* not skipped as a cache hit unless split() has been invoked on a segment
\* with its id and its fingerprint.
C19_NoMissedSplit ==
    (CachingThroughout /\ DistinctIds) =>
        \A k \in hits :
            should_split(all_segments[k]) =>
                <<all_segments[k].id, all_segments[k].fp>> \in ever_split

\* C20: in a run with caching enabled, every segment the scan pass scanned
\* is a cache miss of the split pass and every segment the scan pass skipped
\* is a cache hit of the split pass, whatever the ids of the segments.
C20_ScanSplitAgreement ==
    (AfterSplitPass /\ use_cache) =>
        /\ scan_calls \subseteq misses
        /\ scan_skipped \subseteq hits

\* The same, for descriptor lists whose segments have pairwise distinct ids.
C20_AgreementDistinctIds == DistinctIds => C20_ScanSplitAgreement

====
